---- MODULE Spec2Model ----
(***************************************************************************)
(* Model of fastqtd: the in-memory simulated ledger (SIM_LEDGER), the      *)
(* breadth-first mule-flow tracer of auto_traceback.py and the ledger      *)
(* registration helper of engine.py with its audit write (db.py).          *)
(***************************************************************************)
EXTENDS Integers, Sequences, FiniteSets, TLC

(***************************************************************************)
(* Bounds of the model and the input sets the operations draw from.        *)
(***************************************************************************)
\* number of register_simulated_txn calls in one behaviour (also the clock's range)
MaxClock == 3

\* default of max_hops / max_depth (auto_traceback.py:24, :65)
DefaultMaxHops == 5

\* db.py:13
MAX_WRITE_RETRIES == 6

Accounts == {"A", "B", "C", "D"}
TxnIds == {"T1", "T2", "T3"}
UnknownTxn == "unknown_txn"
Tracers == {"t1"}

\* the callers of traversals that run side by side
SideBySide == {"t1", "t2"}
Registrars == {"r1", "r2"}

\* the hop bounds a caller passes: negative, zero, one round, the default
HopChoices == {-1, 0, 1, DefaultMaxHops}

\* the registrations a caller makes: the chain of run_demo (demo.py:34-36),
\* a self-loop, a cycle back to its start, a second edge out of one account,
\* a re-registration of a known txn_id, and non-positive amounts
RegInputs ==
    { [txn_id |-> "T1", from |-> "A", to |-> "B", amount |-> 5000],
      [txn_id |-> "T2", from |-> "B", to |-> "C", amount |-> 4000],
      [txn_id |-> "T3", from |-> "C", to |-> "D", amount |-> 3900],
      [txn_id |-> "T1", from |-> "A", to |-> "A", amount |-> 5000],
      [txn_id |-> "T2", from |-> "B", to |-> "A", amount |-> 0],
      [txn_id |-> "T3", from |-> "A", to |-> "C", amount |-> -1],
      [txn_id |-> "T2", from |-> "A", to |-> "B", amount |-> 4000],
      [txn_id |-> "T3", from |-> "B", to |-> "B", amount |-> 3900] }

\* the registrations made through engine.register_sim_txn: a first
\* registration, a re-registration of its txn_id, a non-positive amount
EngineInputs ==
    { r \in RegInputs : r.txn_id = "T1" \/ r.amount = 0 }

\* the tables init_db creates (db.py:88-155)
Kinds == {"detections", "traces", "alerts", "reports", "freezes", "recoveries",
          "tracebacks", "reversals"}

Callers == {"c1", "c2", "c3"}

\* the accounts whose stored traces are read
TraceAccounts == {"A", "B"}

\* the limits a caller passes to fetch_tracebacks
Limits == {0, 1, 2}

\* what one attempt of a write meets: it commits, sqlite3 raises
\* OperationalError "database is locked", or it raises another OperationalError
WriteOutcomes == {"ok", "locked", "fatal"}

VARIABLES
    ledger,     \* SIM_LEDGER: the dict in insertion order, a sequence of items
    clock,      \* time.time(): a logical clock, read by every registration
    tr,         \* per tracer call: the locals of build_graph_from_start_account
    reg,        \* per register_sim_txn call: its arguments and its audit write
    db,         \* fastqtd.db: for each table its rows, in commit order
    call,       \* per caller of the audit store: the call in progress
    fallback_log \* the lines of data/traceback_fallback.log

vars == <<ledger, clock, tr, reg, db, call, fallback_log>>
auditVars == <<call, fallback_log>>
engineVars == <<reg, db, auditVars>>

(***************************************************************************)
(* SIM_LEDGER (auto_traceback.py:14-22)                                    *)
(***************************************************************************)
HasTxn(l, txn_id) == \E i \in DOMAIN l : l[i].txn_id = txn_id

GetTxn(l, txn_id) == l[CHOOSE i \in DOMAIN l : l[i].txn_id = txn_id]

\* SIM_LEDGER[txn_id] = {...}: a new key goes to the end of the dict, a known
\* key keeps its position and has its value replaced
DictSet(l, item) ==
    IF HasTxn(l, item.txn_id)
    THEN [i \in DOMAIN l |-> IF l[i].txn_id = item.txn_id THEN item ELSE l[i]]
    ELSE Append(l, item)

LedgerItem(txn_id, from_acct, to_acct, amount, now) ==
    [txn_id |-> txn_id, from |-> from_acct, to |-> to_acct,
     amount |-> amount, timestamp |-> now]

register_simulated_txn(l, txn_id, from_acct, to_acct, amount, now) ==
    DictSet(l, LedgerItem(txn_id, from_acct, to_acct, amount, now))

(***************************************************************************)
(* build_graph_from_start_account (auto_traceback.py:24-63)                *)
(***************************************************************************)
NoResult == [none |-> TRUE]

Idle ==
    [pc |-> "idle", kind |-> "none", txn_id |-> "none", start_account |-> "none",
     max_hops |-> 0, visited_accounts |-> {}, visited_txns |-> {},
     results |-> <<>>, queue |-> <<>>, next_queue |-> <<>>, qi |-> 0,
     hops |-> 0, ret |-> NoResult, raised |-> "none", scans |-> <<>>,
     started_at |-> 0]

\* line 30: visited_accounts = set()
InitVisitedAccounts(start_account) == {}

\* a loop test that forgets the hop bound
LoopCond_NoHopBound(queue, hops, max_hops) == queue # <<>>

\* line 36: while queue and hops < max_hops
LoopCond(queue, hops, max_hops) == queue # <<>> /\ hops < max_hops

\* an edge test that forgets visited_txns
Unvisited_IgnoresVisited(txn, acct, visited_txns) == txn.from = acct

\* line 41: if txn['from'] == acct and txn_id not in visited_txns
Unvisited(txn, acct, visited_txns) ==
    txn.from = acct /\ txn.txn_id \notin visited_txns

\* a visit that queues no account
VisitTxn_QueuesNothing(txn, st) ==
    [visited_txns |-> st.visited_txns \cup {txn.txn_id},
     results |-> Append(st.results, txn),
     next_queue |-> st.next_queue,
     visited_accounts |-> st.visited_accounts \cup {txn.to}]

\* a visit that puts the edge in front of the result
VisitTxn_Prepends(txn, st) ==
    [visited_txns |-> st.visited_txns \cup {txn.txn_id},
     results |-> <<txn>> \o st.results,
     next_queue |-> IF txn.to \notin st.visited_accounts
                    THEN Append(st.next_queue, txn.to) ELSE st.next_queue,
     visited_accounts |-> st.visited_accounts \cup {txn.to}]

\* lines 42-52: the body of the inner for, on one ledger item
VisitTxn(txn, st) ==
    [visited_txns |-> st.visited_txns \cup {txn.txn_id},
     results |-> Append(st.results, txn),
     next_queue |-> IF txn.to \notin st.visited_accounts
                    THEN Append(st.next_queue, txn.to) ELSE st.next_queue,
     visited_accounts |-> st.visited_accounts \cup {txn.to}]

\* lines 40-52: for txn_id, txn in list(SIM_LEDGER.items())
RECURSIVE ScanItems(_, _, _)
ScanItems(items, acct, st) ==
    IF items = <<>> THEN st
    ELSE ScanItems(Tail(items), acct,
                   IF Unvisited(Head(items), acct, st.visited_txns)
                   THEN VisitTxn(Head(items), st) ELSE st)

\* lines 56-60: the returned dict
TraceResult(start_account, results, hops) ==
    [start_account |-> start_account, txns |-> results, hops_searched |-> hops]

\* line 72: the dict returned for an unknown txn_id
NotFoundResult(txn_id) ==
    [txn_id |-> txn_id, found |-> FALSE, sub_txns |-> <<>>]

\* lines 38-52: for acct in queue, over an unchanging ledger
RECURSIVE ScanQueue(_, _, _)
ScanQueue(l, queue, st) ==
    IF queue = <<>> THEN st
    ELSE ScanQueue(l, Tail(queue), ScanItems(l, Head(queue), st))

\* lines 36-60: the while loop and the returned dict, over an unchanging ledger
RECURSIVE Rounds(_, _, _, _, _, _)
Rounds(l, start_account, queue, hops, max_hops, st) ==
    IF LoopCond(queue, hops, max_hops)
    THEN LET after == ScanQueue(l, queue, [st EXCEPT !.next_queue = <<>>])
         IN Rounds(l, start_account, after.next_queue, hops + 1, max_hops, after)
    ELSE TraceResult(start_account, st.results, hops)

\* lines 24-60: the whole call, when no registration runs during it
build_graph_from_start_account(l, start_account, max_hops) ==
    Rounds(l, start_account, <<start_account>>, 0, max_hops,
           [visited_txns |-> {}, results |-> <<>>, next_queue |-> <<>>,
            visited_accounts |-> InitVisitedAccounts(start_account)])

\* lines 30-35: the locals at entry
EnterTrace(kind, txn_id, start_account, max_hops, now) ==
    [Idle EXCEPT !.pc = "while", !.kind = kind, !.txn_id = txn_id,
                 !.start_account = start_account, !.max_hops = max_hops,
                 !.visited_accounts = InitVisitedAccounts(start_account),
                 !.queue = <<start_account>>, !.started_at = now]

\* a caller invokes build_graph_from_start_account(start_account, max_hops)
StartTrace(t, starts, bounds) ==
    /\ tr[t].pc = "idle"
    /\ \E start_account \in starts, max_hops \in bounds :
         tr' = [tr EXCEPT ![t] =
                  EnterTrace("account", "none", start_account, max_hops, clock)]
    /\ UNCHANGED <<ledger, clock, engineVars>>

TraceFromAccount(t) == StartTrace(t, Accounts, HopChoices)

\* the calls of callers that trace side by side
TraceSideBySide(t) == StartTrace(t, {"A"}, {1, DefaultMaxHops})

\* a lookup without the membership test of line 71: SIM_LEDGER[txn_id] raises
\* KeyError on an unknown txn_id
TraceFromTransaction_NoLookup(t) ==
    /\ tr[t].pc = "idle"
    /\ \E txn_id \in TxnIds \cup {UnknownTxn}, max_depth \in HopChoices :
         IF ~HasTxn(ledger, txn_id)
         THEN tr' = [tr EXCEPT ![t] =
                       [Idle EXCEPT !.pc = "done", !.kind = "txn",
                                    !.txn_id = txn_id, !.max_hops = max_depth,
                                    !.raised = "KeyError",
                                    !.started_at = clock]]
         ELSE tr' = [tr EXCEPT ![t] =
                       EnterTrace("txn", txn_id, GetTxn(ledger, txn_id).to,
                                  max_depth, clock)]
    /\ UNCHANGED <<ledger, clock, engineVars>>

\* a caller invokes trace_subtransactions_for_txn(txn_id, max_depth), lines 65-78
TraceFromTransaction(t) ==
    /\ tr[t].pc = "idle"
    /\ \E txn_id \in TxnIds \cup {UnknownTxn}, max_depth \in HopChoices :
         IF ~HasTxn(ledger, txn_id)
         THEN tr' = [tr EXCEPT ![t] =
                       [Idle EXCEPT !.pc = "done", !.kind = "txn",
                                    !.txn_id = txn_id, !.max_hops = max_depth,
                                    !.ret = NotFoundResult(txn_id),
                                    !.started_at = clock]]
         ELSE tr' = [tr EXCEPT ![t] =
                       EnterTrace("txn", txn_id, GetTxn(ledger, txn_id).to,
                                  max_depth, clock)]
    /\ UNCHANGED <<ledger, clock, engineVars>>

\* line 36-37 and 56-60: the loop test; the round starts or the call returns
While(t) ==
    /\ tr[t].pc = "while"
    /\ IF LoopCond(tr[t].queue, tr[t].hops, tr[t].max_hops)
       THEN tr' = [tr EXCEPT ![t].pc = "for", ![t].next_queue = <<>>, ![t].qi = 1]
       ELSE tr' = [tr EXCEPT ![t].pc = "done",
                             ![t].ret = TraceResult(tr[t].start_account,
                                                    tr[t].results, tr[t].hops)]
    /\ UNCHANGED <<ledger, clock, engineVars>>

\* a scan whose visited_txns is one set for all the calls in progress
Scan_SharedVisited(t) ==
    /\ tr[t].pc = "for"
    /\ tr[t].qi <= Len(tr[t].queue)
    /\ LET acct == tr[t].queue[tr[t].qi]
           st == ScanItems(ledger, acct,
                           [visited_txns |-> UNION {tr[u].visited_txns : u \in SideBySide},
                            results |-> tr[t].results,
                            next_queue |-> tr[t].next_queue,
                            visited_accounts |-> tr[t].visited_accounts])
       IN tr' = [tr EXCEPT ![t].visited_txns = st.visited_txns,
                           ![t].results = st.results,
                           ![t].next_queue = st.next_queue,
                           ![t].visited_accounts = st.visited_accounts,
                           ![t].qi = tr[t].qi + 1,
                           ![t].scans = Append(tr[t].scans,
                               [acct |-> acct, round |-> tr[t].hops + 1,
                                pos |-> tr[t].qi,
                                found |-> Len(st.results) - Len(tr[t].results),
                                queued |-> Len(st.next_queue) - Len(tr[t].next_queue)])]
    /\ UNCHANGED <<ledger, clock, engineVars>>

\* lines 38-52: one account of the frontier is scanned over a snapshot of the ledger
Scan(t) ==
    /\ tr[t].pc = "for"
    /\ tr[t].qi <= Len(tr[t].queue)
    /\ LET acct == tr[t].queue[tr[t].qi]
           st == ScanItems(ledger, acct,
                           [visited_txns |-> tr[t].visited_txns,
                            results |-> tr[t].results,
                            next_queue |-> tr[t].next_queue,
                            visited_accounts |-> tr[t].visited_accounts])
       IN tr' = [tr EXCEPT ![t].visited_txns = st.visited_txns,
                           ![t].results = st.results,
                           ![t].next_queue = st.next_queue,
                           ![t].visited_accounts = st.visited_accounts,
                           ![t].qi = tr[t].qi + 1,
                           ![t].scans = Append(tr[t].scans,
                               [acct |-> acct, round |-> tr[t].hops + 1,
                                pos |-> tr[t].qi,
                                found |-> Len(st.results) - Len(tr[t].results),
                                queued |-> Len(st.next_queue) - Len(tr[t].next_queue)])]
    /\ UNCHANGED <<ledger, clock, engineVars>>

\* a round end that counts a round only when it leaves a frontier to expand
EndRound_CountsProductive(t) ==
    /\ tr[t].pc = "for"
    /\ tr[t].qi > Len(tr[t].queue)
    /\ tr' = [tr EXCEPT ![t].pc = "while", ![t].queue = tr[t].next_queue,
                        ![t].hops = tr[t].hops +
                                    (IF tr[t].next_queue # <<>> THEN 1 ELSE 0)]
    /\ UNCHANGED <<ledger, clock, engineVars>>

\* lines 53-54: queue = next_queue; hops += 1
EndRound(t) ==
    /\ tr[t].pc = "for"
    /\ tr[t].qi > Len(tr[t].queue)
    /\ tr' = [tr EXCEPT ![t].pc = "while", ![t].queue = tr[t].next_queue,
                        ![t].hops = tr[t].hops + 1]
    /\ UNCHANGED <<ledger, clock, engineVars>>

\* the caller takes the result; the call's locals are gone
Return(t) ==
    /\ tr[t].pc = "done"
    /\ tr' = [tr EXCEPT ![t] = Idle]
    /\ UNCHANGED <<ledger, clock, engineVars>>

\* a caller invokes register_simulated_txn directly (auto_traceback.py:16-22)
Register(inputs) ==
    /\ clock < MaxClock
    /\ \E r \in inputs :
         ledger' = register_simulated_txn(ledger, r.txn_id, r.from, r.to,
                                          r.amount, clock + 1)
    /\ clock' = clock + 1
    /\ UNCHANGED <<tr, engineVars>>

RegisterSimulatedTxn == Register(RegInputs)

\* the registrations beside concurrent traversals: A->B, B->A and A->C, a
\* fork out of A and a cycle back to it
RegisterBeside ==
    Register({r \in RegInputs :
                r.from # r.to /\ (r.txn_id = "T1" \/ r.amount <= 0)})

TracerStep(t) == While(t) \/ Scan(t) \/ EndRound(t)

(***************************************************************************)
(* db.py: _execute_write (38-68) and add_trace (167-171)                   *)
(***************************************************************************)
\* id INTEGER PRIMARY KEY AUTOINCREMENT (db.py:99): one more than the largest
NextId_Skips(table) == IF table = <<>> THEN 1 ELSE table[Len(table)].id + 2

NextId(table) == IF table = <<>> THEN 1 ELSE table[Len(table)].id + 1

\* json.dumps / json.loads: the text of a value, and the value of a text; a
\* text that is no JSON document has no value (json.loads raises)
JsonDumps(value) == [json |-> value]
IsJson(text) == "json" \in DOMAIN text
JsonLoads(text) == text.json

\* db.py:168-171: the row add_trace inserts; created_at is time.time() at the call
TraceRow(table, account_id, path, now) ==
    [id |-> NextId(table), account_id |-> account_id,
     path_json |-> JsonDumps(path), created_at |-> now]

\* db.py:62: if 'locked' in msg and attempt < MAX_WRITE_RETRIES
ShouldRetry_OneMore(outcome, attempt) ==
    outcome = "locked" /\ attempt <= MAX_WRITE_RETRIES

ShouldRetry_AnyError(outcome, attempt) ==
    outcome # "ok" /\ attempt < MAX_WRITE_RETRIES

ShouldRetry(outcome, attempt) ==
    outcome = "locked" /\ attempt < MAX_WRITE_RETRIES

\* db.py:63: sleep_time = RETRY_BASE_DELAY * (2 ** attempt), in units of the base delay
SleepTime(attempt) == 2 ^ attempt

\* a call of the audit store that has not started
CallIdle ==
    [pc |-> "idle", op |-> "none", kind |-> "none", args |-> <<>>, cols |-> <<>>,
     now |-> 0,
     attempt |-> 0, sleeps |-> <<>>, outcomes |-> <<>>, committed |-> FALSE,
     raised |-> "none", ret |-> NoResult]

(***************************************************************************)
(* engine.register_sim_txn (engine.py:160-179)                             *)
(***************************************************************************)
RegIdle ==
    [pc |-> "idle", txn_id |-> "none", from |-> "none", to |-> "none",
     amount |-> 0, now |-> 0, attempt |-> 0, sleeps |-> <<>>, db_exc |-> "none",
     warned |-> FALSE, ret |-> NoResult, raised |-> "none"]

\* engine.py:171
Registered(txn_id) == [txn_id |-> txn_id, registered |-> TRUE]

\* engine.py:160-164: the call and its ledger write
RegisterSimTxn(r) ==
    /\ reg[r].pc = "idle"
    /\ clock < MaxClock
    /\ \E a \in EngineInputs :
         /\ ledger' = register_simulated_txn(ledger, a.txn_id, a.from, a.to,
                                              a.amount, clock + 1)
         /\ reg' = [reg EXCEPT ![r] =
                      [RegIdle EXCEPT !.pc = "add_trace", !.txn_id = a.txn_id,
                                      !.from = a.from, !.to = a.to,
                                      !.amount = a.amount,
                                      !.now = clock + 1]]
    /\ clock' = clock + 1
    /\ UNCHANGED <<tr, db, auditVars>>

\* engine.py:166-171 over db.py:44-68: one attempt of add_trace's write. It
\* commits the row, or sleeps and tries again, or raises; register_sim_txn
\* catches what add_trace raises, prints a warning and returns registered
AddTraceAttempt(r) ==
    /\ reg[r].pc = "add_trace"
    /\ \E outcome \in WriteOutcomes :
         IF outcome = "ok"
         THEN /\ db' = [db EXCEPT !.traces = Append(db.traces,
                      TraceRow(db.traces, reg[r].from,
                               <<reg[r].from, reg[r].to>>, reg[r].now))]
              /\ reg' = [reg EXCEPT ![r].pc = "done",
                                    ![r].ret = Registered(reg[r].txn_id)]
         ELSE IF ShouldRetry(outcome, reg[r].attempt)
         THEN /\ reg' = [reg EXCEPT ![r].attempt = reg[r].attempt + 1,
                                    ![r].sleeps = Append(reg[r].sleeps,
                                                     SleepTime(reg[r].attempt))]
              /\ UNCHANGED db
         ELSE /\ reg' = [reg EXCEPT ![r].pc = "done", ![r].db_exc = outcome,
                                    ![r].warned = TRUE,
                                    ![r].ret = Registered(reg[r].txn_id)]
              /\ UNCHANGED db
    /\ UNCHANGED <<ledger, clock, tr, auditVars>>

\* the caller takes the result
RegReturn(r) ==
    /\ reg[r].pc = "done"
    /\ reg' = [reg EXCEPT ![r] = RegIdle]
    /\ UNCHANGED <<ledger, clock, tr, db, auditVars>>

(***************************************************************************)
(* db.py: the wrappers (161-231), the reads (70-81, 220-238) and           *)
(* trace_using_db (auto_traceback.py:80-99)                                *)
(***************************************************************************)
\* a stored text that is no JSON document
NotJson == [text |-> "not json"]

\* db.py:202-204: the text add_traceback stores
TracebackText(exc) ==
    IF exc = "none" THEN "no-exception" ELSE <<"Traceback", exc>>

\* db.py:161-231: the columns each wrapper binds, besides id and created_at
LogDetectionCols(result) ==
    [txn_id |-> result.txn_id, result_json |-> JsonDumps(result)]
AddTraceCols(account_id, path) ==
    [account_id |-> account_id, path_json |-> JsonDumps(path)]
AddAlertCols(payload) == [alert_json |-> JsonDumps(payload)]
AddReportCols(payload) == [report_json |-> JsonDumps(payload)]
AddFreezeCols(txn_id, reason, meta) ==
    [txn_id |-> txn_id, reason |-> reason, meta_json |-> JsonDumps(meta)]
AddRecoveryCols(txn_id, recovery_info, success) ==
    [txn_id |-> txn_id, recovery_json |-> JsonDumps(recovery_info),
     success |-> IF success THEN 1 ELSE 0]
AddTracebackCols(context, exc) ==
    [context |-> context, traceback_text |-> TracebackText(exc)]
AddReversalCols(txn_id, reversal_txn_id, amount, meta) ==
    [txn_id |-> txn_id, reversal_txn_id |-> reversal_txn_id,
     amount |-> <<"str", amount>>, meta_json |-> JsonDumps(meta)]

InsertRow_Twice(table, cols, now) ==
    table \o << cols @@ [id |-> NextId(table), created_at |-> now],
                cols @@ [id |-> NextId(table) + 1, created_at |-> now] >>

\* the row an INSERT commits: the bound columns, the next id, the call's time
InsertRow(table, cols, now) ==
    Append(table, cols @@ [id |-> NextId(table), created_at |-> now])

\* the calls of the wrappers a caller makes
AppendCalls ==
    { [op |-> "log_detection", kind |-> "detections",
       cols |-> LogDetectionCols([txn_id |-> "T1", is_fraud |-> TRUE])],
      [op |-> "add_trace", kind |-> "traces",
       cols |-> AddTraceCols("A", <<"A", "B">>)],
      [op |-> "add_trace", kind |-> "traces",
       cols |-> AddTraceCols("A", <<"B", "C", "B">>)],
      [op |-> "add_trace", kind |-> "traces",
       cols |-> AddTraceCols("B", <<"B", "A">>)],
      [op |-> "add_alert", kind |-> "alerts", cols |-> AddAlertCols("scam")],
      [op |-> "add_report", kind |-> "reports", cols |-> AddReportCols("case-1")],
      [op |-> "add_freeze", kind |-> "freezes",
       cols |-> AddFreezeCols("T1", "suspected_fraud", [frozen_amount |-> 4000])],
      [op |-> "add_recovery", kind |-> "recoveries",
       cols |-> AddRecoveryCols("T1", [attempted |-> TRUE], FALSE)],
      [op |-> "add_traceback", kind |-> "tracebacks",
       cols |-> AddTracebackCols("detect_transaction", "ValueError")],
      [op |-> "add_reversal", kind |-> "reversals",
       cols |-> AddReversalCols("T1", "ir_T1", 4000, [method |-> "instant"])] }

\* the operations of engine.py that write one row and return
EngineOps ==
    {"detect_transaction", "freeze_transaction", "recover_transaction_by_ai",
     "instant_revert"}

\* the operations that catch every exception, record it with add_traceback
\* and raise it again (auto_traceback.py:97-99, engine.py:38-40, 76-78,
\* 108-110, 156-158)
RecordsFailure(op) == op = "trace_using_db" \/ op \in EngineOps

\* the payloads of the callers that append side by side
ContentionCalls(c) ==
    { [op |-> "add_alert", kind |-> "alerts", cols |-> AddAlertCols(<<"alert", c>>)],
      [op |-> "add_trace", kind |-> "traces", cols |-> AddTraceCols("A", <<"A", c>>)] }

\* a caller invokes one of the wrappers; its parameters, time.time() among
\* them, are bound once, before _execute_write
StartWrite(c, calls) ==
    /\ call[c].pc = "idle"
    /\ clock < MaxClock
    /\ \E a \in calls :
         call' = [call EXCEPT ![c] =
                    [CallIdle EXCEPT !.pc = "write", !.op = a.op, !.kind = a.kind,
                                     !.cols = a.cols, !.now = clock + 1]]
    /\ clock' = clock + 1
    /\ UNCHANGED <<ledger, tr, reg, db, fallback_log>>

AppendCall(c) == StartWrite(c, AppendCalls)

ContentionCall(c) == StartWrite(c, ContentionCalls(c))

AfterAttempt_NoRollback(d, rec, outcome) ==
    [d EXCEPT ![rec.kind] = InsertRow(d[rec.kind], rec.cols, rec.now)]

\* db.py:51-59: an attempt commits its INSERT, or rolls back and leaves the
\* tables as they were
AfterAttempt(d, rec, outcome) ==
    IF outcome = "ok"
    THEN [d EXCEPT ![rec.kind] = InsertRow(d[rec.kind], rec.cols, rec.now)]
    ELSE d

\* engine.py:136, 151: the recovery instant_revert records after its reversal
RecoveryOfReversal(cols) ==
    AddRecoveryCols(cols.txn_id,
                    [reversal_txn_id |-> cols.reversal_txn_id,
                     amount |-> cols.amount[2]],
                    TRUE)

\* db.py:51-53: the write committed and _execute_write returned; a write of
\* add_traceback made for a failed operation is followed by its raise, the
\* add_reversal of instant_revert by its add_recovery (engine.py:134-136)
WriteReturned(rec, now) ==
    IF rec.op = "instant_revert" /\ rec.kind = "reversals"
    THEN [rec EXCEPT !.kind = "recoveries", !.cols = RecoveryOfReversal(rec.cols),
                     !.now = now, !.attempt = 0, !.sleeps = <<>>,
                     !.outcomes = <<>>]
    ELSE [rec EXCEPT !.pc = "done", !.committed = TRUE]

\* an exception exc leaves _execute_write (db.py:67-68) or a read.
\* add_traceback swallows that of its own write (db.py:209-218); an operation
\* that records its failures starts add_traceback and keeps exc to raise
\* (auto_traceback.py:97-99); every other caller lets it out
Raised(rec, exc, now) ==
    IF rec.pc = "write" /\ rec.kind = "tracebacks"
    THEN [rec EXCEPT !.pc = "done"]
    ELSE IF RecordsFailure(rec.op)
    THEN [rec EXCEPT !.pc = "write", !.kind = "tracebacks",
                     !.cols = AddTracebackCols(rec.op, exc), !.now = now,
                     !.attempt = 0, !.sleeps = <<>>, !.outcomes = <<>>,
                     !.raised = exc]
    ELSE [rec EXCEPT !.pc = "done", !.raised = exc]

\* db.py:44-68: one attempt of _execute_write. The statement commits, or the
\* attempt is retried after a sleep, or the exception leaves _execute_write;
\* add_traceback then writes its fallback line, unless that write fails too
WriteAttempt(c, outcomes) ==
    /\ call[c].pc = "write"
    /\ \E outcome \in outcomes :
         LET rec == [call[c] EXCEPT !.outcomes = Append(@, outcome)]
         IN /\ db' = AfterAttempt(db, rec, outcome)
            /\ IF outcome = "ok"
               THEN /\ call' = [call EXCEPT ![c] = WriteReturned(rec, clock)]
                    /\ UNCHANGED fallback_log
               ELSE IF ShouldRetry(outcome, rec.attempt)
               THEN /\ call' = [call EXCEPT ![c] =
                                  [rec EXCEPT !.attempt = rec.attempt + 1,
                                              !.sleeps = Append(rec.sleeps,
                                                           SleepTime(rec.attempt))]]
                    /\ UNCHANGED fallback_log
               ELSE /\ call' = [call EXCEPT ![c] = Raised(rec, outcome, clock)]
                    /\ IF rec.kind = "tracebacks"
                       THEN \E written \in BOOLEAN :
                              fallback_log' =
                                IF written
                                THEN Append(fallback_log, rec.cols.context)
                                ELSE fallback_log
                       ELSE UNCHANGED fallback_log
    /\ UNCHANGED <<ledger, clock, tr, reg>>

Write(c) == WriteAttempt(c, WriteOutcomes)

\* the attempts of a store that works or fails for good: no lock is met
UncontendedWrite(c) == WriteAttempt(c, {"ok", "fatal"})

\* the attempts of callers whose only failure is the lock of another writer
ContendedWrite(c) == WriteAttempt(c, {"ok", "locked"})

OrderByIdDesc_TableOrder(rows) == rows

\* db.py:77-78: the SELECT returns its rows or raises; no error is retried
ReadOutcomes == {"ok", "fatal"}

\* ORDER BY id DESC
RECURSIVE OrderByIdDesc(_)
OrderByIdDesc(rows) ==
    IF rows = <<>>
    THEN <<>>
    ELSE LET i == CHOOSE i \in 1..Len(rows) :
                    \A j \in 1..Len(rows) : rows[j].id <= rows[i].id
         IN <<rows[i]>> \o OrderByIdDesc(SubSeq(rows, 1, i - 1)
                                          \o SubSeq(rows, i + 1, Len(rows)))

WhereAccount_All(rows, account_id) == rows

\* WHERE account_id = ?
WhereAccount(rows, account_id) ==
    SelectSeq(rows, LAMBDA r : r.account_id = account_id)

\* LIMIT ?: a negative limit is no limit
Limit(rows, limit) ==
    IF limit < 0 \/ limit >= Len(rows) THEN rows ELSE SubSeq(rows, 1, limit)

\* db.py:220-225
fetch_tracebacks(table, limit) ==
    LET rows == Limit(OrderByIdDesc(table), limit)
    IN [i \in 1..Len(rows) |->
          [id |-> rows[i].id, context |-> rows[i].context,
           traceback |-> rows[i].traceback_text, created_at |-> rows[i].created_at]]

fetch_traces_for_account_SkipsMalformed(table, account_id) ==
    LET rows == SelectSeq(OrderByIdDesc(WhereAccount(table, account_id)),
                          LAMBDA r : IsJson(r.path_json))
    IN [raised |-> "none",
        ret |-> [i \in 1..Len(rows) |->
                   [id |-> rows[i].id, account_id |-> rows[i].account_id,
                    path |-> JsonLoads(rows[i].path_json),
                    created_at |-> rows[i].created_at]]]

\* db.py:233-238: json.loads raises on the first row whose text is no JSON
fetch_traces_for_account(table, account_id) ==
    LET rows == OrderByIdDesc(WhereAccount(table, account_id))
    IN IF \E i \in 1..Len(rows) : ~IsJson(rows[i].path_json)
       THEN [raised |-> "JSONDecodeError", ret |-> NoResult]
       ELSE [raised |-> "none",
             ret |-> [i \in 1..Len(rows) |->
                        [id |-> rows[i].id, account_id |-> rows[i].account_id,
                         path |-> JsonLoads(rows[i].path_json),
                         created_at |-> rows[i].created_at]]]

FlattenPath_KeepsDuplicates(flat, p) == flat \o p

\* auto_traceback.py:93-95: the inner loop over one path
RECURSIVE FlattenPath(_, _)
FlattenPath(flat, p) ==
    IF p = <<>>
    THEN flat
    ELSE FlattenPath(IF \E i \in 1..Len(flat) : flat[i] = Head(p)
                     THEN flat
                     ELSE Append(flat, Head(p)),
                     Tail(p))

\* auto_traceback.py:91-95: the outer loop over the aggregated paths
RECURSIVE FlattenFrom(_, _)
FlattenFrom(flat, paths) ==
    IF paths = <<>>
    THEN flat
    ELSE FlattenFrom(FlattenPath(flat, Head(paths)), Tail(paths))

Flatten(paths) == FlattenFrom(<<>>, paths)

\* auto_traceback.py:86-96
trace_using_db(table, account_id) ==
    LET fetched == fetch_traces_for_account(table, account_id)
        rows == fetched.ret
        aggregated == [i \in 1..Len(rows) |-> rows[i].path]
    IN IF fetched.raised # "none"
       THEN fetched
       ELSE [raised |-> "none",
             ret |-> [account |-> account_id,
                      aggregated_paths |-> Flatten(aggregated),
                      rows_used |-> Len(rows)]]

\* db.py:70-81: a SELECT runs on its own connection, is never retried, and
\* its exception reaches the caller of the read; add_traceback, where the
\* caller records the failure, reads the time
ReadCall(c, op, kind, args, result) ==
    LET rec == [CallIdle EXCEPT !.pc = "read", !.op = op, !.kind = kind,
                                !.args = args]
    IN /\ call[c].pc = "idle"
       /\ \E outcome \in ReadOutcomes :
            LET after == IF outcome # "ok"
                         THEN Raised(rec, outcome, clock + 1)
                         ELSE IF result.raised # "none"
                         THEN Raised(rec, result.raised, clock + 1)
                         ELSE [rec EXCEPT !.pc = "done", !.ret = result.ret]
            IN /\ after.pc = "write" => clock < MaxClock
               /\ call' = [call EXCEPT ![c] = after]
               /\ clock' = IF after.pc = "write" THEN clock + 1 ELSE clock
       /\ UNCHANGED <<ledger, tr, reg, db, fallback_log>>

FetchTracebacks(c) ==
    \E limit \in Limits :
       ReadCall(c, "fetch_tracebacks", "tracebacks", [limit |-> limit],
                [raised |-> "none", ret |-> fetch_tracebacks(db.tracebacks, limit)])

FetchTracesForAccount(c) ==
    \E account_id \in TraceAccounts :
       ReadCall(c, "fetch_traces_for_account", "traces", [account_id |-> account_id],
                fetch_traces_for_account(db.traces, account_id))

TraceUsingDb(c) ==
    \E account_id \in TraceAccounts :
       ReadCall(c, "trace_using_db", "traces", [account_id |-> account_id],
                trace_using_db(db.traces, account_id))

\* another process that shares the database file stores a trace whose
\* path_json is no JSON document
ForeignTraceRow ==
    /\ clock < MaxClock
    /\ clock' = clock + 1
    /\ \E account_id \in TraceAccounts :
         db' = [db EXCEPT !.traces =
                  InsertRow(db.traces,
                            [account_id |-> account_id, path_json |-> NotJson],
                            clock + 1)]
    /\ UNCHANGED <<ledger, tr, reg, call, fallback_log>>

\* the call of an engine operation that goes straight to its one write
EngineWrite(op, kind, cols, now) ==
    [CallIdle EXCEPT !.pc = "write", !.op = op, !.kind = kind, !.cols = cols,
                     !.now = now]

\* engine.py:16-40: detect_transaction logs its result
DetectTransaction(c) ==
    /\ call[c].pc = "idle"
    /\ clock < MaxClock
    /\ clock' = clock + 1
    /\ call' = [call EXCEPT ![c] =
                  EngineWrite("detect_transaction", "detections",
                              LogDetectionCols([txn_id |-> "T1", is_fraud |-> TRUE]),
                              clock + 1)]
    /\ UNCHANGED <<ledger, tr, reg, db, fallback_log>>

\* the amounts a caller asks to freeze
SuspectAmounts == {0, 4000}

\* engine.py:59-78: freeze_transaction raises ValueError inside its try
\* block when suspect_amount <= 0, and stores the freeze otherwise
FreezeTransaction(c) ==
    /\ call[c].pc = "idle"
    /\ clock < MaxClock
    /\ clock' = clock + 1
    /\ \E suspect_amount \in SuspectAmounts :
         call' = [call EXCEPT ![c] =
                    IF suspect_amount <= 0
                    THEN Raised([CallIdle EXCEPT !.pc = "call",
                                                 !.op = "freeze_transaction"],
                                "ValueError", clock + 1)
                    ELSE EngineWrite("freeze_transaction", "freezes",
                                     AddFreezeCols("T1", "suspected_fraud",
                                                   [frozen_amount |-> suspect_amount]),
                                     clock + 1)]
    /\ UNCHANGED <<ledger, tr, reg, db, fallback_log>>

\* engine.py:80-110: the legacy recovery stores one recovery; a success
\* names a reversal inside its 'reversal' entry and writes no reversal
RecoverTransactionByAi(c) ==
    /\ call[c].pc = "idle"
    /\ clock < MaxClock
    /\ clock' = clock + 1
    /\ \E success \in BOOLEAN :
         call' = [call EXCEPT ![c] =
                    EngineWrite("recover_transaction_by_ai", "recoveries",
                                AddRecoveryCols("T1",
                                   IF success
                                   THEN [txn_id |-> "T1",
                                         reversal |->
                                           [reversal_txn_id |-> <<"rev", "T1", clock + 1>>]]
                                   ELSE [txn_id |-> "T1"],
                                   success),
                                clock + 1)]
    /\ UNCHANGED <<ledger, tr, reg, db, fallback_log>>

\* engine.py:132-134, 148-150: the reversal instant_revert logs first
StartReversal(txn_id, amount, now) ==
    EngineWrite("instant_revert", "reversals",
                AddReversalCols(txn_id, <<"ir", txn_id, now>>, amount,
                                [reversed_amount |-> amount]),
                now)

\* engine.py:154: the recovery of a revert that did not succeed
StartFailedRecovery(txn_id, now) ==
    EngineWrite("instant_revert", "recoveries",
                AddRecoveryCols(txn_id,
                                [attempted |-> TRUE,
                                 reason |-> "instant_revert_failed"],
                                FALSE),
                now)

\* an instant_revert that records the recovery and leaves the reversal out
InstantRevert_RecoveryOnly(c) ==
    /\ call[c].pc = "idle"
    /\ clock < MaxClock
    /\ clock' = clock + 1
    /\ call' = [call EXCEPT ![c] =
                  EngineWrite("instant_revert", "recoveries",
                              RecoveryOfReversal(
                                 AddReversalCols("T1", <<"ir", "T1", clock + 1>>,
                                                 5000, [reversed_amount |-> 5000])),
                              clock + 1)]
    /\ UNCHANGED <<ledger, tr, reg, db, fallback_log>>

\* engine.py:112-158: instant_revert reverses the ledger's amount when the
\* txn_id is in SIM_LEDGER; otherwise the advisory decides between a
\* synthetic reversal and a failed recovery
InstantRevert(c) ==
    /\ call[c].pc = "idle"
    /\ clock < MaxClock
    /\ clock' = clock + 1
    /\ \E success \in BOOLEAN :
         call' = [call EXCEPT ![c] =
                    IF HasTxn(ledger, "T1")
                    THEN StartReversal("T1", GetTxn(ledger, "T1").amount, clock + 1)
                    ELSE IF success
                    THEN StartReversal("T1", "unknown_demo_amount", clock + 1)
                    ELSE StartFailedRecovery("T1", clock + 1)]
    /\ UNCHANGED <<ledger, tr, reg, db, fallback_log>>

\* the registration the engine operations find in the ledger
RegisterReverted == Register({r \in RegInputs : r.txn_id = "T1" /\ r.to = "B"})

\* the caller takes the result or the exception
CallReturn(c) ==
    /\ call[c].pc = "done"
    /\ call' = [call EXCEPT ![c] = CallIdle]
    /\ UNCHANGED <<ledger, clock, tr, reg, db, fallback_log>>

Init ==
    /\ ledger = <<>>
    /\ clock = 0
    /\ tr = [t \in SideBySide |-> Idle]
    /\ reg = [r \in Registrars |-> RegIdle]
    /\ db = [k \in Kinds |-> <<>>]
    /\ call = [c \in Callers |-> CallIdle]
    /\ fallback_log = <<>>

Next ==
    \/ RegisterSimulatedTxn
    \/ \E t \in Tracers : TraceFromAccount(t)
    \/ \E t \in Tracers : TraceFromTransaction(t)
    \/ \E t \in Tracers : TracerStep(t)
    \/ \E t \in Tracers : Return(t)

\* the ledger and the tracer: registrations through auto_traceback alone
Spec == Init /\ [][Next]_vars

\* every started traversal keeps running: the call is synchronous
LiveSpec == Spec /\ \A t \in Tracers : WF_vars(TracerStep(t))

\* traversals from concurrent callers, and registrations
ConcurrentNext ==
    \/ RegisterBeside
    \/ \E t \in SideBySide : TraceSideBySide(t)
    \/ \E t \in SideBySide : TracerStep(t)
    \/ \E t \in SideBySide : Return(t)

ConcurrentSpec == Init /\ [][ConcurrentNext]_vars

EngineNext ==
    \/ \E r \in Registrars : RegisterSimTxn(r)
    \/ \E r \in Registrars : AddTraceAttempt(r)
    \/ \E r \in Registrars : RegReturn(r)

\* registrations through engine.register_sim_txn, from concurrent callers
EngineSpec == Init /\ [][EngineNext]_vars

\* one client of the audit store, and a foreign writer of the database file
AuditNext ==
    \/ AppendCall("c1")
    \/ Write("c1")
    \/ FetchTracebacks("c1")
    \/ FetchTracesForAccount("c1")
    \/ TraceUsingDb("c1")
    \/ CallReturn("c1")
    \/ ForeignTraceRow

AuditSpec == Init /\ [][AuditNext]_vars

\* the callers of the engine operations
Operators == {"c1", "c2"}

\* the engine operations that write audit records, from concurrent callers
OpsNext ==
    \/ RegisterReverted
    \/ DetectTransaction("c1")
    \/ FreezeTransaction("c1")
    \/ RecoverTransactionByAi("c1")
    \/ \E c \in Operators : InstantRevert(c)
    \/ \E c \in Operators : UncontendedWrite(c)
    \/ \E c \in Operators : CallReturn(c)

OpsSpec == Init /\ [][OpsNext]_vars

\* concurrent callers, each appending once, that lock one another out; an
\* attempt in progress ends (db.py:44-68 holds no loop besides the retry)
ContentionNext ==
    \E c \in Callers : ContentionCall(c) \/ ContendedWrite(c)

ContentionSpec ==
    /\ Init
    /\ [][ContentionNext]_vars
    /\ \A c \in Callers : WF_vars(ContendedWrite(c))

(***************************************************************************)
(* Properties                                                              *)
(***************************************************************************)
TxnIdsOf(edges) == [i \in DOMAIN edges |-> edges[i].txn_id]

Distinct(seq) == \A i, j \in DOMAIN seq : i # j => seq[i] # seq[j]

\* the edge list a returned dict carries: 'txns' of a trace, 'sub_txns' of a not-found
EdgesOf(ret) ==
    IF "txns" \in DOMAIN ret THEN ret.txns
    ELSE IF "sub_txns" \in DOMAIN ret THEN ret.sub_txns ELSE <<>>

\* the ledger without its timestamps
EdgesRegistered(l) ==
    [i \in DOMAIN l |-> <<l[i].txn_id, l[i].from, l[i].to, l[i].amount>>]

ScenarioA ==
    << <<"T1", "A", "B", 5000>>, <<"T2", "B", "C", 4000>>, <<"T3", "C", "D", 3900>> >>

SingleHop == << <<"T1", "A", "B", 5000>> >>

\* no registration ran since the call of tracer t started
LedgerStatic(t) == tr[t].started_at = clock

\* the rounds of the call that have begun
RoundsBegun(t) == tr[t].hops + (IF tr[t].pc = "for" THEN 1 ELSE 0)

\* the last round in which a scan found an edge, 0 when none did
LastProductive(scans) ==
    LET prod == {scans[i].round : i \in {j \in DOMAIN scans : scans[j].found > 0}}
    IN IF prod = {} THEN 0 ELSE CHOOSE k \in prod : \A m \in prod : m <= k

\* the accounts round k put in the next frontier
QueuedIn(scans, k) ==
    Cardinality({i \in DOMAIN scans : scans[i].round = k /\ scans[i].queued > 0})

Finished(t) == tr[t].pc = "done" /\ "hops_searched" \in DOMAIN tr[t].ret

\* C1: the result of one build_graph_from_start_account call holds each txn_id
\* at most once, while it is built and when it is returned, on every ledger
C1_NoDoubleVisit ==
    \A t \in Tracers :
        /\ Distinct(TxnIdsOf(tr[t].results))
        /\ Distinct(TxnIdsOf(EdgesOf(tr[t].ret)))

\* C1 witness: a returned trace over a cycle or self-loop, in which an account
\* was scanned a second time and two or more edges were found
C1_Witness ==
    \E t \in Tracers :
        /\ Finished(t)
        /\ Len(tr[t].ret.txns) >= 2
        /\ \E i, j \in DOMAIN tr[t].scans :
               i < j /\ tr[t].scans[i].acct = tr[t].scans[j].acct

\* C2 (as stated): for any integer max_hops the returned hops_searched is at
\* most max_hops
C2_HopsWithinBound ==
    \A t \in Tracers : Finished(t) => tr[t].ret.hops_searched <= tr[t].max_hops

\* C3: a started traversal returns, and no round beyond round max_hops is ever
\* begun, on ledgers with self-loops and cycles too
C3_TerminatesWithinMaxHops ==
    \A t \in Tracers :
        /\ [](RoundsBegun(t) > 0 => RoundsBegun(t) <= tr[t].max_hops)
        /\ (tr[t].pc \in {"while", "for"}) ~> (tr[t].pc = "done")

\* C3 witness: a traversal that followed an edge back to its start account (a
\* self-loop or a cycle) has returned after two or more rounds
C3_Witness ==
    \E t \in Tracers :
        /\ Finished(t)
        /\ tr[t].hops >= 2
        /\ \E i \in DOMAIN tr[t].results : tr[t].results[i].to = tr[t].start_account

\* C4 (as stated): within one call no account is scanned for outgoing edges
\* more than once, the start account included
C4_NoReExpansion ==
    \A t \in Tracers : Distinct([i \in DOMAIN tr[t].scans |-> tr[t].scans[i].acct])

\* C5 (as stated): the chain T1: A->B, T2: B->C, T3: C->D traced from A with
\* bound 5 gives [T1, T2, T3] and hops_searched = 3, a single-hop ledger gives 1
C5_RoundCountAsStated ==
    \A t \in Tracers :
        Finished(t) /\ LedgerStatic(t) /\ tr[t].kind = "account"
          /\ tr[t].start_account = "A" /\ tr[t].max_hops = 5 =>
            /\ EdgesRegistered(ledger) = ScenarioA =>
                  /\ TxnIdsOf(tr[t].ret.txns) = <<"T1", "T2", "T3">>
                  /\ tr[t].ret.hops_searched = 3
            /\ EdgesRegistered(ledger) = SingleHop => tr[t].ret.hops_searched = 1

\* C5 (amended): the chain traced from A with bound 5 gives [T1, T2, T3] and
\* hops_searched = 4, the single-hop ledger T1: A->B gives 2; a traversal whose
\* last productive round is k < max_hops reports k + 1 when round k queued an
\* account (the round that then finds nothing is counted), and k when it did not
C5_RoundCount ==
    \A t \in Tracers :
        Finished(t) =>
            /\ LedgerStatic(t) /\ tr[t].kind = "account"
                 /\ tr[t].start_account = "A" /\ tr[t].max_hops = 5 =>
                   /\ EdgesRegistered(ledger) = ScenarioA =>
                         /\ TxnIdsOf(tr[t].ret.txns) = <<"T1", "T2", "T3">>
                         /\ tr[t].ret.hops_searched = 4
                   /\ EdgesRegistered(ledger) = SingleHop =>
                         /\ TxnIdsOf(tr[t].ret.txns) = <<"T1">>
                         /\ tr[t].ret.hops_searched = 2
            /\ LET k == LastProductive(tr[t].scans)
               IN tr[t].max_hops > k =>
                    tr[t].ret.hops_searched =
                        IF k = 0 \/ QueuedIn(tr[t].scans, k) > 0 THEN k + 1 ELSE k

\* C5 witness: the chain of three edges was traced from A with bound 5
C5_Witness ==
    \E t \in Tracers :
        /\ Finished(t) /\ LedgerStatic(t) /\ tr[t].kind = "account"
        /\ tr[t].start_account = "A" /\ tr[t].max_hops = 5
        /\ EdgesRegistered(ledger) = ScenarioA
        /\ Len(tr[t].ret.txns) = 3

\* C6 (as stated): trace_subtransactions_for_txn on a known txn_id returns the
\* edge list of build_graph_from_start_account(edge.to, max_depth) and found = true
C6_FoundWrapsAccountTrace ==
    \A t \in Tracers :
        tr[t].pc = "done" /\ tr[t].kind = "txn" /\ LedgerStatic(t)
          /\ HasTxn(ledger, tr[t].txn_id) =>
            /\ EdgesOf(tr[t].ret) =
                 build_graph_from_start_account(
                     ledger, GetTxn(ledger, tr[t].txn_id).to, tr[t].max_hops).txns
            /\ "found" \in DOMAIN tr[t].ret
            /\ tr[t].ret.found = TRUE

\* C7: trace_subtransactions_for_txn on a txn_id the ledger does not hold
\* returns found = false and no edges in the same step, scans no account,
\* raises nothing and leaves the ledger as it was
C7_UnknownTxnNotFound ==
    [][\A t \in Tracers :
          tr[t].pc = "idle" /\ tr'[t].kind = "txn"
            /\ ~HasTxn(ledger, tr'[t].txn_id) =>
              /\ tr'[t].pc = "done"
              /\ "found" \in DOMAIN tr'[t].ret
              /\ tr'[t].ret.found = FALSE
              /\ EdgesOf(tr'[t].ret) = <<>>
              /\ tr'[t].scans = <<>> /\ tr'[t].results = <<>>
              /\ tr'[t].raised = "none"
              /\ ledger' = ledger]_vars

\* C7 witness: a lookup of an unknown txn_id has returned on a non-empty ledger
C7_Witness ==
    \E t \in Tracers :
        /\ tr[t].pc = "done" /\ tr[t].kind = "txn"
        /\ tr[t].txn_id = UnknownTxn
        /\ ledger # <<>>
        /\ tr[t].ret = [txn_id |-> UnknownTxn, found |-> FALSE, sub_txns |-> <<>>]

\* C8 (as stated): a registration of a txn_id the ledger holds fails with
\* DuplicateEdgeError and leaves the stored edges as they were, so of two
\* registrations of one txn_id only the first succeeds
C8_DuplicateRejected ==
    [][\A r \in Registrars :
          reg[r].pc = "idle" /\ reg'[r].pc # "idle"
            /\ HasTxn(ledger, reg'[r].txn_id) =>
              /\ reg'[r].raised = "DuplicateEdgeError"
              /\ ledger' = ledger]_vars

\* C9 (as stated): a registration with amount <= 0 fails with ValidationError:
\* it puts no edge in the ledger and returns no registered result
C9_NonPositiveAmountRejected ==
    /\ \A i \in DOMAIN ledger : ledger[i].amount > 0
    /\ \A r \in Registrars :
          reg[r].pc = "done" /\ reg[r].amount <= 0 =>
              reg[r].raised = "ValidationError" /\ reg[r].ret = NoResult

\* C10 (as stated): a traversal called with a negative hop bound fails with
\* ValidationError and returns no result
C10_NegativeBoundRejected ==
    \A t \in Tracers :
        tr[t].pc = "done" /\ tr[t].max_hops < 0 =>
            tr[t].raised = "ValidationError" /\ tr[t].ret = NoResult

(***************************************************************************)
(* The audit store: _execute_write                                         *)
(***************************************************************************)
\* a call whose write is in progress or has ended
InWrite(c) == call[c].pc \in {"write", "done"} /\ call[c].outcomes # <<>>

\* C11 (state part): a write makes at most 1 + MAX_WRITE_RETRIES attempts,
\* has slept 1, 2, 4, ... base delays before its retries, has committed and
\* returned on the first attempt that met no lock, and has raised the lock
\* error exactly when all seven attempts met the lock.
C11_Attempts ==
    \A c \in Callers :
       InWrite(c) =>
         /\ call[c].attempt <= MAX_WRITE_RETRIES
         /\ Len(call[c].outcomes) <= 1 + MAX_WRITE_RETRIES
         /\ Len(call[c].sleeps) = call[c].attempt
         /\ \A k \in 1..Len(call[c].sleeps) :
               call[c].sleeps[k] = IF k = 1 THEN 1 ELSE 2 * call[c].sleeps[k - 1]
         /\ \A i \in 1..Len(call[c].outcomes) :
               call[c].outcomes[i] = "ok" =>
                 /\ i = Len(call[c].outcomes)
                 /\ call[c].pc = "done" /\ call[c].committed
                 /\ call[c].raised = "none"
         /\ (\A i \in 1..Len(call[c].outcomes) : call[c].outcomes[i] = "locked")
               => IF Len(call[c].outcomes) = 1 + MAX_WRITE_RETRIES
                  THEN /\ call[c].pc = "done" /\ call[c].raised = "locked"
                       /\ call[c].sleeps = <<1, 2, 4, 8, 16, 32>>
                  ELSE call[c].pc = "write"

\* C11: under lock contention every write ends, after at most seven attempts
\* with doubling sleeps between them: with the lock error when every attempt
\* met the lock, with success at the first attempt that did not.
C11_BoundedBackoff ==
    /\ []C11_Attempts
    /\ \A c \in Callers : (call[c].pc = "write") ~> (call[c].pc = "done")

C11_Witness ==
    \E c \in Callers :
       /\ call[c].pc = "done" /\ call[c].raised = "locked"
       /\ Len(call[c].outcomes) = 1 + MAX_WRITE_RETRIES
       /\ \E d \in Callers : call[d].pc = "done" /\ call[d].committed
                              /\ call[d].attempt = 3

\* C12: an attempt that fails with an error other than the lock is the last
\* attempt of its write: no sleep follows it, and the error leaves
\* _execute_write at once, however many retries remain.
C12_FatalNotRetried ==
    \A c \in Callers :
       \A i \in 1..Len(call[c].outcomes) :
          call[c].outcomes[i] = "fatal" =>
            /\ i = Len(call[c].outcomes)
            /\ Len(call[c].sleeps) = i - 1
            /\ call[c].pc = "done"
            /\ ~call[c].committed
            /\ call[c].op # "add_traceback" /\ ~RecordsFailure(call[c].op)
                 => call[c].raised = "fatal"

C12_Witness ==
    /\ call["c1"].pc = "done" /\ call["c1"].raised = "fatal"
    /\ call["c1"].outcomes = <<"locked", "locked", "fatal">>

\* the columns a wrapper bound, as a stored row holds them
Payload(row) == [f \in DOMAIN row \ {"id", "created_at"} |-> row[f]]

\* the rows of a table that hold the payload cols
Stored(table, cols) == {i \in 1..Len(table) : Payload(table[i]) = cols}

\* table grew from old by exactly the rows added
Extends(table, old) ==
    /\ Len(table) >= Len(old)
    /\ SubSeq(table, 1, Len(old)) = old

\* the wrappers whose write failure reaches their caller
Surfaces(c) == call[c].op \in {a.op : a \in AppendCalls} \ {"add_traceback"}

\* C13 (state part): a write that ended with an error has committed nothing;
\* one that committed has returned without error.
C13_ErrorCommitsNothing ==
    \A c \in Callers :
       call[c].pc = "done" /\ call[c].outcomes # <<>> =>
          /\ call[c].committed <=> call[c].outcomes[Len(call[c].outcomes)] = "ok"
          /\ Surfaces(c) => (call[c].raised # "none" <=> ~call[c].committed)

\* C13 (step part): the attempt that commits adds exactly one row, holding
\* the call's payload, to the call's table and changes nothing else; an
\* attempt that does not commit (retried, or ended with an error) leaves
\* every table as it was; a read returns rows of the tables only.
C13_AttemptCommitsOneOrNone ==
    \A c \in Callers :
       /\ call[c].pc = "write" /\ call'[c].outcomes # call[c].outcomes =>
            IF call'[c].committed
            THEN /\ call'[c].pc = "done"
                 /\ Len(db'[call[c].kind]) = Len(db[call[c].kind]) + 1
                 /\ Extends(db'[call[c].kind], db[call[c].kind])
                 /\ Payload(db'[call[c].kind][Len(db'[call[c].kind])]) = call[c].cols
                 /\ \A k \in Kinds \ {call[c].kind} : db'[k] = db[k]
            ELSE db' = db
       /\ call[c].pc = "idle" /\ call'[c].pc = "done" /\ call'[c].raised = "none"
            /\ call'[c].op \in {"fetch_tracebacks", "fetch_traces_for_account"} =>
            /\ db' = db
            /\ \A i \in 1..Len(call'[c].ret) :
                  \E j \in 1..Len(db[call'[c].kind]) :
                     db[call'[c].kind][j].id = call'[c].ret[i].id

\* C13: a write is atomic and durable before it returns: success has
\* committed exactly one new row, an error none, and reads see committed
\* rows only.
C13_AtomicAppend ==
    /\ []C13_ErrorCommitsNothing
    /\ [][C13_AttemptCommitsOneOrNone]_vars

C13_Witness ==
    /\ call["c1"].pc = "done" /\ call["c1"].committed
    /\ call["c1"].attempt = 2 /\ call["c1"].kind = "freezes"
    /\ Len(db.freezes) = 2
    /\ Payload(db.freezes[2]) = call["c1"].cols

RECURSIVE RowCount(_, _)
RowCount(d, kinds) ==
    IF kinds = {}
    THEN 0
    ELSE LET k == CHOOSE k \in kinds : TRUE
         IN Len(d[k]) + RowCount(d, kinds \ {k})

AllReturned == \A c \in Callers : call[c].pc = "done"

\* C14 (state part): once every concurrent call has returned, each has
\* succeeded or raised the lock error, the tables hold as many rows as calls
\* succeeded, the payload of each success once and that of no failure.
C14_SuccessesPersistedOnce ==
    AllReturned =>
      /\ \A c \in Callers :
            /\ call[c].committed <=> call[c].raised = "none"
            /\ call[c].raised \in {"none", "locked"}
            /\ Cardinality(Stored(db[call[c].kind], call[c].cols))
                 = IF call[c].committed THEN 1 ELSE 0
      /\ RowCount(db, Kinds) = Cardinality({c \in Callers : call[c].committed})

\* C14: concurrent writes of distinct payloads under lock contention all
\* return, with success or the lock error, and the store then holds exactly
\* the payloads of the successes, each once.
C14_ConcurrentAppends ==
    /\ []C14_SuccessesPersistedOnce
    /\ \A c \in Callers :
          (call[c].pc = "write")
             ~> (call[c].pc = "done" /\ (call[c].committed \/ call[c].raised = "locked"))

C14_Witness ==
    /\ AllReturned
    /\ call["c1"].committed /\ call["c1"].attempt = 2
    /\ call["c2"].raised = "locked"
    /\ call["c3"].committed /\ call["c3"].kind = call["c1"].kind
    /\ db[call["c3"].kind][1].created_at > db[call["c3"].kind][2].created_at

\* C15 (state part): the ids of each table are 1..n in commit order.
C15_IdsGapFree ==
    \A k \in Kinds : \A i \in 1..Len(db[k]) : db[k][i].id = i

\* C15: the ids of every kind are 1, 2, ..., n in commit order, whatever
\* appends failed or were retried in between, and no step changes or removes
\* a stored row.
C15_AppendOnly ==
    /\ []C15_IdsGapFree
    /\ [][\A k \in Kinds : Extends(db'[k], db[k])]_vars

C15_Witness ==
    /\ Len(db.traces) = 2
    /\ call["c1"].pc = "done" /\ call["c1"].kind = "traces"
    /\ call["c1"].raised = "locked"

(***************************************************************************)
(* The audit store: reads                                                  *)
(***************************************************************************)
\* caller c ends a read by op without an exception in this step
Reads(c, op) ==
    /\ call[c].pc = "idle" /\ call'[c].pc = "done"
    /\ call'[c].op = op /\ call'[c].raised = "none"

\* the ids of the rows of a table
IdsOf(table) == {table[i].id : i \in 1..Len(table)}

\* recs is in strictly descending order of id
DescendingIds(recs) ==
    \A i, j \in 1..Len(recs) : i < j => recs[i].id > recs[j].id

\* C16 (round trip): when add_traceback commits, fetch_tracebacks(1) on the
\* store as the commit left it is one record, of the greatest id, holding
\* the context and text just appended.
C16_AppendThenFetchOne ==
    \A c \in Callers :
       call[c].pc = "write" /\ call[c].kind = "tracebacks" /\ call'[c].committed =>
          LET got == fetch_tracebacks(db'.tracebacks, 1)
          IN /\ Len(got) = 1
             /\ got[1].context = call[c].cols.context
             /\ got[1].traceback = call[c].cols.traceback_text
             /\ got[1].created_at = call[c].now
             /\ \A id \in IdsOf(db'.tracebacks) : id <= got[1].id

\* C16 (limit): fetch_tracebacks(limit) returns min(limit, n) records, those
\* of the greatest ids, in descending order of id, each as stored.
C16_FetchRecent ==
    \A c \in Callers :
       Reads(c, "fetch_tracebacks") =>
          LET got == call'[c].ret
              limit == call'[c].args.limit
              n == Len(db.tracebacks)
          IN /\ Len(got) <= limit
             /\ Len(got) = IF limit < n THEN limit ELSE n
             /\ DescendingIds(got)
             /\ \A i \in 1..Len(got) :
                   /\ \A id \in IdsOf(db.tracebacks) :
                         id > got[i].id => \E j \in 1..(i - 1) : got[j].id = id
                   /\ \E j \in 1..n :
                         /\ db.tracebacks[j].id = got[i].id
                         /\ db.tracebacks[j].context = got[i].context
                         /\ db.tracebacks[j].traceback_text = got[i].traceback
                         /\ db.tracebacks[j].created_at = got[i].created_at

\* C16: an append of a traceback followed at once by FetchRecent(1) returns
\* exactly the record appended, which has the greatest id; FetchRecent(limit)
\* returns at most limit records, the most recent first.
C16_RoundTrip == [][C16_AppendThenFetchOne /\ C16_FetchRecent]_vars

C16_Witness ==
    /\ call["c1"].pc = "done" /\ call["c1"].op = "fetch_tracebacks"
    /\ call["c1"].raised = "none"
    /\ call["c1"].args.limit = 1
    /\ Len(db.tracebacks) = 3
    /\ Len(call["c1"].ret) = 1 /\ call["c1"].ret[1].id = 3
    /\ call["c1"].ret[1].context = "detect_transaction"

\* C17: fetch_traces_for_account(account) returns the stored traces of that
\* account, all of them and no other, in strictly descending order of id,
\* each with the path add_trace was given.
C17_FetchTraces ==
    [][\A c \in Callers :
          Reads(c, "fetch_traces_for_account") =>
             LET got == call'[c].ret
                 account_id == call'[c].args.account_id
             IN /\ IdsOf(got) = {db.traces[j].id : j \in
                                   {j \in 1..Len(db.traces) :
                                      db.traces[j].account_id = account_id}}
                /\ DescendingIds(got)
                /\ \A i \in 1..Len(got) :
                      /\ got[i].account_id = account_id
                      /\ \E j \in 1..Len(db.traces) :
                            /\ db.traces[j].id = got[i].id
                            /\ db.traces[j].path_json = JsonDumps(got[i].path)
                            /\ db.traces[j].created_at = got[i].created_at]_vars

C17_Witness ==
    /\ call["c1"].pc = "done" /\ call["c1"].op = "fetch_traces_for_account"
    /\ call["c1"].raised = "none"
    /\ call["c1"].args.account_id = "A"
    /\ Len(db.traces) = 3 /\ db.traces[2].account_id = "B"
    /\ Len(call["c1"].ret) = 2
    /\ call["c1"].ret[1].path = <<"B", "C", "B">>
    /\ call["c1"].ret[2].path = <<"A", "B">>

\* the stored paths of an account, the most recent first, end to end
RECURSIVE PathsEndToEnd(_, _, _)
PathsEndToEnd(table, account_id, n) ==
    IF n = 0
    THEN <<>>
    ELSE (IF table[n].account_id = account_id
          THEN JsonLoads(table[n].path_json)
          ELSE <<>>) \o PathsEndToEnd(table, account_id, n - 1)

\* the first position of account a in seq
FirstIndex(seq, a) ==
    CHOOSE i \in 1..Len(seq) : seq[i] = a /\ \A j \in 1..(i - 1) : seq[j] # a

\* C18: trace_using_db returns every account of the fetched paths exactly
\* once, in the order of first appearance over the paths as fetched and each
\* path from its start, and the number of paths it read.
C18_Flatten ==
    [][\A c \in Callers :
          Reads(c, "trace_using_db") =>
             LET account_id == call'[c].args.account_id
                 flat == call'[c].ret.aggregated_paths
                 all == PathsEndToEnd(db.traces, account_id, Len(db.traces))
             IN /\ call'[c].ret.account = account_id
                /\ {flat[i] : i \in 1..Len(flat)} = {all[i] : i \in 1..Len(all)}
                /\ \A i, j \in 1..Len(flat) :
                      i < j => /\ flat[i] # flat[j]
                               /\ FirstIndex(all, flat[i]) < FirstIndex(all, flat[j])
                /\ call'[c].ret.rows_used =
                      Cardinality({j \in 1..Len(db.traces) :
                                     db.traces[j].account_id = account_id})]_vars

C18_Witness ==
    /\ call["c1"].pc = "done" /\ call["c1"].op = "trace_using_db"
    /\ call["c1"].raised = "none"
    /\ Len(db.traces) = 3 /\ db.traces[2].account_id = "B"
    /\ call["c1"].ret.aggregated_paths = <<"B", "C", "A">>
    /\ call["c1"].ret.rows_used = 2

\* a stored trace of the account that cannot be decoded
Malformed(table, account_id) ==
    \E j \in 1..Len(table) :
       table[j].account_id = account_id /\ ~IsJson(table[j].path_json)

\* C19: a fetch that matches a trace whose path cannot be decoded ends with
\* an exception and returns no list, in fetch_traces_for_account and in
\* trace_using_db, which keeps the exception while it records it.
C19_MalformedFailsFetch ==
    [][\A c \in Callers :
          /\ ( /\ call[c].pc = "idle"
               /\ call'[c].op \in {"fetch_traces_for_account", "trace_using_db"}
               /\ Malformed(db.traces, call'[c].args.account_id) )
               => /\ call'[c].raised # "none"
                  /\ call'[c].ret = NoResult
          /\ ( /\ call[c].op = "trace_using_db"
               /\ call[c].pc = "write"
               /\ call'[c].pc # "idle" )
               => /\ call[c].raised # "none"
                  /\ call'[c].raised = call[c].raised
                  /\ call'[c].ret = NoResult]_vars

C19_Witness ==
    /\ call["c1"].pc = "done" /\ call["c1"].op = "trace_using_db"
    /\ call["c1"].raised = "JSONDecodeError"
    /\ Len(db.traces) = 2 /\ IsJson(db.traces[1].path_json)
    /\ db.traces[1].account_id = "A" /\ db.traces[2].account_id = "A"
    /\ Len(db.tracebacks) = 1 /\ db.tracebacks[1].context = "trace_using_db"

(***************************************************************************)
(* The engine: failures of audit writes                                    *)
(***************************************************************************)
\* C20: an operation whose audit write failed returns that failure to its
\* caller: register_sim_txn, when its add_trace raised, ends with that
\* exception and not with a result.
C20_AuditFailureReturned ==
    \A r \in Registrars :
       reg[r].pc = "done" /\ reg[r].db_exc # "none" =>
          /\ reg[r].raised = reg[r].db_exc
          /\ reg[r].ret = NoResult

(***************************************************************************)
(* The tracer: what a traversal returns, and in which order                *)
(***************************************************************************)
\* the accounts at most n edges of ledger l away from start
RECURSIVE Within(_, _, _)
Within(l, start, n) ==
    IF n = 0
    THEN {start}
    ELSE LET near == Within(l, start, n - 1)
         IN near \cup {l[i].to : i \in {j \in DOMAIN l : l[j].from \in near}}

\* the edges of l that leave an account fewer than n edges away from start
EdgesWithin(l, start, n) ==
    IF n <= 0
    THEN {}
    ELSE {l[i] : i \in {j \in DOMAIN l : l[j].from \in Within(l, start, n - 1)}}

\* C21: on a ledger that no registration changed during the call, a
\* traversal with max_hops >= 0 returns exactly the edges that leave an
\* account fewer than max_hops edges away from the start account: none for
\* max_hops = 0, and for max_hops = 1 the edges that leave the start account,
\* with hops_searched = 1.
C21_ReturnsEdgesWithinBound ==
    \A t \in Tracers :
       Finished(t) /\ LedgerStatic(t) /\ tr[t].max_hops >= 0 =>
          /\ {tr[t].ret.txns[i] : i \in DOMAIN tr[t].ret.txns}
                = EdgesWithin(ledger, tr[t].start_account, tr[t].max_hops)
          /\ tr[t].max_hops = 0 => tr[t].ret.txns = <<>>
          /\ tr[t].max_hops = 1 =>
                /\ tr[t].ret.hops_searched = 1
                /\ \A i \in DOMAIN ledger :
                      ledger[i].from = tr[t].start_account
                         <=> \E k \in DOMAIN tr[t].ret.txns :
                                tr[t].ret.txns[k] = ledger[i]

C21_Witness ==
    \E t \in Tracers :
       /\ Finished(t) /\ LedgerStatic(t)
       /\ tr[t].kind = "account" /\ tr[t].start_account = "A"
       /\ tr[t].max_hops = 1
       /\ EdgesRegistered(ledger) = ScenarioA
       /\ TxnIdsOf(tr[t].ret.txns) = <<"T1">>
       /\ tr[t].ret.hops_searched = 1

\* the scan of the call, by its index in scans, that found the k-th edge
RECURSIVE FoundUpTo(_, _)
FoundUpTo(scans, n) ==
    IF n = 0 THEN 0 ELSE scans[n].found + FoundUpTo(scans, n - 1)

ScanOf(scans, k) ==
    CHOOSE n \in DOMAIN scans : FoundUpTo(scans, n - 1) < k /\ k <= FoundUpTo(scans, n)

\* the position of a txn_id in the dict: the order of first registration
PositionOf(l, txn_id) == CHOOSE i \in DOMAIN l : l[i].txn_id = txn_id

\* edge i of the result precedes edge j in discovery order
DiscoveredBefore(t, i, j) ==
    LET si == tr[t].scans[ScanOf(tr[t].scans, i)]
        sj == tr[t].scans[ScanOf(tr[t].scans, j)]
    IN \/ si.round < sj.round
       \/ si.round = sj.round /\ si.pos < sj.pos
       \/ /\ si.round = sj.round /\ si.pos = sj.pos
          /\ PositionOf(ledger, tr[t].results[i].txn_id)
               < PositionOf(ledger, tr[t].results[j].txn_id)

\* C22: the result is in discovery order: by expansion round, within a round
\* by the frontier position of the account the edge leaves, and among the
\* edges of one account by the order in which their txn_ids were first
\* registered.
C22_DiscoveryOrder ==
    \A t \in Tracers :
       /\ FoundUpTo(tr[t].scans, Len(tr[t].scans)) = Len(tr[t].results)
       /\ \A i, j \in DOMAIN tr[t].results :
             /\ tr[t].results[i].from = tr[t].scans[ScanOf(tr[t].scans, i)].acct
             /\ i < j => DiscoveredBefore(t, i, j)
       /\ Finished(t) => tr[t].ret.txns = tr[t].results

C22_Witness ==
    \E t \in Tracers :
       /\ Finished(t)
       /\ Len(tr[t].ret.txns) = 3
       /\ tr[t].ret.txns[1].from = "A" /\ tr[t].ret.txns[2].from = "A"
       /\ tr[t].ret.txns[3].from = "B"
       /\ tr[t].scans[ScanOf(tr[t].scans, 3)].round = 2

\* C24: an edge registered after the traversal started is in its result
\* only when the account it leaves had not been expanded before the edge was
\* registered: no scan of that account precedes the scan that found the
\* edge (an earlier scan would have found an edge registered before it).
C24_NoEdgeOutOfExpandedAccount ==
    \A t \in Tracers :
       \A k \in DOMAIN tr[t].results :
          tr[t].results[k].timestamp > tr[t].started_at =>
             \A n \in 1..(ScanOf(tr[t].scans, k) - 1) :
                tr[t].scans[n].acct # tr[t].results[k].from

\* C23 (state part): on a ledger that no registration changed since the
\* call started, a traversal returns what the same call returns when it
\* runs alone, whatever other traversals ran beside it.
C23_SameAsAlone ==
    \A t \in SideBySide :
       Finished(t) /\ LedgerStatic(t) =>
          tr[t].ret = build_graph_from_start_account(ledger, tr[t].start_account,
                                                     tr[t].max_hops)

\* C23: a traversal writes its own locals only, never the ledger and never
\* the locals of another call, and concurrent or repeated traversals of an
\* unchanged ledger each return the result of the call run alone.
C23_ReadOnlyCallLocal ==
    /\ []C23_SameAsAlone
    /\ [][\A t \in SideBySide :
             tr'[t] # tr[t] =>
                /\ ledger' = ledger
                /\ \A u \in SideBySide \ {t} : tr'[u] = tr[u]]_vars

C23_Witness ==
    /\ Finished("t1") /\ LedgerStatic("t1")
    /\ tr["t1"].start_account = "A" /\ tr["t1"].max_hops = DefaultMaxHops
    /\ Len(tr["t1"].ret.txns) = 3
    /\ tr["t2"].pc = "for" /\ tr["t2"].hops = 1 /\ LedgerStatic("t2")
    /\ tr["t2"].start_account = "A" /\ tr["t2"].results # <<>>
    /\ tr["t2"].scans[1].found = 2

(***************************************************************************)
(* The engine: failure notes, and the records of instant_revert            *)
(***************************************************************************)
\* the exceptions that come out of the audit store
StoreErrors == WriteOutcomes \ {"ok"}

\* C25: recording a failure never raises and never enters the audit store
\* again after the store failed: an operation whose audit write failed ends
\* with that error, its note having gone to the emergency log and no write
\* to tracebacks having been attempted for it.
C25_NoteOfStoreFailureSkipsStore ==
    \A c \in Callers :
       call[c].op \in EngineOps /\ call[c].raised \in StoreErrors =>
          /\ call[c].pc = "done"
          /\ call[c].kind # "tracebacks"
          /\ \E i \in DOMAIN fallback_log : fallback_log[i] = call[c].op

\* C26: a validation failure returns to the caller and leaves the
\* tracebacks table as it was: no step of a freeze_transaction that raised
\* ValueError for its amount adds a row, and no row records that error.
C26_ValidationLeavesNoNote ==
    /\ \A c \in Callers :
          call[c].op = "freeze_transaction" /\ call[c].raised = "ValueError" =>
             call[c].pc = "done" /\ call[c].outcomes = <<>>
    /\ \A i \in DOMAIN db.tracebacks :
          db.tracebacks[i].traceback_text # TracebackText("ValueError")

\* the recovery_info a recovery row holds
RecoveryInfo(row) == JsonLoads(row.recovery_json)

\* a reversal row of that txn_id and reversal_txn_id is stored
ReversalStored(txn_id, reversal_txn_id) ==
    \E j \in DOMAIN db.reversals :
       /\ db.reversals[j].txn_id = txn_id
       /\ db.reversals[j].reversal_txn_id = reversal_txn_id

\* C27 (state part): every recovery that carries a reversal_txn_id, stored
\* or about to be written, has its reversal stored, committed no later; a
\* recovery with success = 0 carries none.
C27_RecoveryHasReversal ==
    /\ \A i \in DOMAIN db.recoveries :
          LET info == RecoveryInfo(db.recoveries[i])
          IN /\ "reversal_txn_id" \in DOMAIN info =>
                   /\ db.recoveries[i].success = 1
                   /\ \E j \in DOMAIN db.reversals :
                         /\ db.reversals[j].txn_id = db.recoveries[i].txn_id
                         /\ db.reversals[j].reversal_txn_id = info.reversal_txn_id
                         /\ db.reversals[j].created_at <= db.recoveries[i].created_at
             /\ db.recoveries[i].success = 0 =>
                   "reversal_txn_id" \notin DOMAIN info
    /\ \A c \in Callers :
          /\ call[c].op = "instant_revert"
          /\ call[c].kind = "recoveries"
          /\ call[c].cols.success = 1
          => ReversalStored(call[c].cols.txn_id,
                            JsonLoads(call[c].cols.recovery_json).reversal_txn_id)

\* C27 (step part): an instant_revert that failed, writing its recovery with
\* success = 0, writes no reversal.
C27_FailedRevertWritesNoReversal ==
    \A c \in Callers :
       /\ call[c].op = "instant_revert"
       /\ call[c].kind = "recoveries"
       /\ call[c].cols.success = 0
       /\ \/ call'[c].pc # call[c].pc
          \/ call'[c].kind # call[c].kind
          \/ call'[c].outcomes # call[c].outcomes
       => /\ db'.reversals = db.reversals
          /\ call'[c].committed =>
                /\ Len(db'.recoveries) = Len(db.recoveries) + 1
                /\ db'.recoveries[Len(db'.recoveries)].success = 0

\* C27: instant_revert commits the reversal before the recovery that names
\* it, so every recovery with a reversal_txn_id has a stored reversal of that
\* reversal_txn_id and txn_id, whichever append fails and whatever other
\* writers do in between; a failed revert writes a recovery with success = 0
\* and no reversal.
C27_ReversalBeforeRecovery ==
    /\ []C27_RecoveryHasReversal
    /\ [][C27_FailedRevertWritesNoReversal]_vars

C27_Witness ==
    /\ Len(db.reversals) = 2 /\ Len(db.recoveries) = 1
    /\ "reversal_txn_id" \in DOMAIN RecoveryInfo(db.recoveries[1])
    /\ RecoveryInfo(db.recoveries[1]).reversal_txn_id
          = db.reversals[2].reversal_txn_id
    /\ call["c1"].op = "instant_revert" /\ call["c1"].raised = "fatal"
    /\ call["c1"].pc = "done"

====
